---- MODULE Spec2Model ----
(***************************************************************************)
(* Garden-Cam power controller (src/src/main.cpp, Arduino side, v5.3).     *)
(*                                                                         *)
(* The firmware is one polling loop() plus the I2C receive handler         *)
(* rxEvent(), which the Wire library calls from the TWI interrupt.  The    *)
(* handler runs to completion (interrupts are disabled inside an AVR ISR), *)
(* so it is one atomic action; loop() is split at every statement that     *)
(* reads or writes state shared with the handler, so the handler can run   *)
(* between any two of them.                                                *)
(***************************************************************************)
EXTENDS Integers, Sequences, FiniteSets, TLC

(* ---------------------------- program constants ------------------------ *)
LOW == 0
HIGH == 1
RELAY_ON_STATE == 1
CMD_SHUT == 7
CMD_MODE == 13
VREF == 5
R1 == 30000
R2 == 7500
ADC_FULL == 1023
VBAT_CUT_CENTI == 540
PCT_ZERO_DECI == 55
PCT_SPAN_DECI == 33
HOLD_MS == 60000
BATT_MS == 10000
DELAY_MS == 50
W16 == 65536
W8 == 256
U16_MAX == 65535

(* ------------------------------- bounds -------------------------------- *)
MaxCycles == 1
MaxFrameLen == 3

(* First and second byte of a frame: both command bytes and both mode     *)
(* values; 0 and 1 are also bytes that are no command.                     *)
ByteSamples == {0, 1, CMD_SHUT, CMD_MODE}

(* Third and later bytes of a frame: the handler only drains them.         *)
PadByte == 170

(* Averaged ADC readings saveBattery() is tried on: 220 is the largest    *)
(* reading below 5.40 V, 226 is 5.52 V (0 %).                              *)
RawSamples == {220, 226}

(* Loop cycles run when the hold window is followed over several cycles *)
MaxTimerCycles == 3

(* Loop cycles run when every cycle is a long stretch *)
MaxHoldCycles == 2

(* Milliseconds left before millis() wraps when the wrap-around run starts *)
WrapLead == 30000

(* Durations of one loop cycle: delay(50), or a stretch that takes the     *)
(* clock 59.999 s or 60 s past the previous cycle.                         *)
DelaySteps == {DELAY_MS, HOLD_MS - 1, HOLD_MS}

(* Durations between cycles when every cycle is a long stretch: half the  *)
(* hold window, one millisecond short of it, and all of it.                *)
HoldSteps == {HOLD_MS \div 2, HOLD_MS - 1, HOLD_MS}

(* The frames of the two commands (section 6 of the protocol) *)
SetModeFrame(m) == <<CMD_MODE, IF m THEN 1 ELSE 0>>
ShutdownFrame == <<CMD_SHUT>>

Frames ==
  {<<>>} \cup {<<a>> : a \in ByteSamples}
         \cup {<<a, b>> \o [i \in 1..k |-> PadByte] :
                  a \in ByteSamples, b \in ByteSamples, k \in 0..(MaxFrameLen - 2)}

VARIABLES
  alwaysOn,    \* volatile bool alwaysOn
  rqShutdown,  \* volatile bool rqShutdown
  powering,    \* bool powering
  onMs,        \* unsigned long onMs
  lastPir,     \* bool lastPir
  battPct,     \* uint8_t battPct
  battT,       \* unsigned long battT
  battCutoff,  \* bool battCutoff (build option, never written at run time)
  pinRelay,    \* output level of PIN_RELAY
  now,         \* millis()
  pc,          \* position of the main thread (line of main.cpp)
  sleep,       \* "run", "down" (inside LowPower.powerDown), "wake"
  rxBuf,       \* bytes left in the Wire receive buffer
  cycles,      \* completed loop cycles (bounds the run)
  last,        \* history: the step just taken ("main" or the handler's branch)
  c0,          \* history: the state in which the current loop cycle began,
               \*   NoSnap once a command has changed the mode during it
  dist,        \* history: "no", or a shutdown request was handled in the
               \*   mode active since: "start" (only before this cycle's first
               \*   statement), "mid" (after it, or during the cycle's delay)
  tripped,     \* history: the battery cutoff has tripped
  pirHeld,     \* history: PIN_PIR was read HIGH in ALWAYS_ON mode and at
               \*   every read since
  pirReq,      \* history: rqShutdown holds a request received in PIR mode
  rearmed      \* history: onMs was last set by a rising edge read in PIR
               \*   mode with the relay pin ON, inside the hold window and
               \*   with no request pending; no command has changed the mode
               \*   or requested a shutdown since

vars == <<alwaysOn, rqShutdown, powering, onMs, lastPir, battPct, battT,
          battCutoff, pinRelay, now, pc, sleep, rxBuf, cycles,
          last, c0, dist, tripped, pirHeld, pirReq, rearmed>>

shared == <<alwaysOn, rqShutdown, powering, onMs, pinRelay>>

(* ------------------------------ helpers -------------------------------- *)
relayOn == RELAY_ON_STATE
(* mutant: relayOff() drives the ON level *)
relayOffStuck == RELAY_ON_STATE
relayOff == 1 - RELAY_ON_STATE
relayIsOn == pinRelay = RELAY_ON_STATE

(* An unsigned long (32 bits) is kept as its two 16-bit halves <<hi, lo>>, *)
(* so that arithmetic modulo 2^32 stays exact.                             *)
U32(n) == <<n \div W16, n % W16>>

(* t + d modulo 2^32, for 0 <= d < 2^30 *)
Add32(t, d) ==
  LET s == t[2] + d IN <<(t[1] + s \div W16) % W16, s % W16>>

(* mutant: the subtraction is not modular, a counter behind b gives 0 *)
ElapsedNoWrap(a, b) ==
  IF a[1] < b[1] \/ (a[1] = b[1] /\ a[2] < b[2]) THEN <<0, 0>>
  ELSE LET lo == a[2] - b[2]
           borrow == IF lo < 0 THEN 1 ELSE 0
       IN <<a[1] - b[1] - borrow, (lo + W16) % W16>>

(* unsigned long subtraction a - b, modulo 2^32 *)
Elapsed(a, b) ==
  LET lo == a[2] - b[2]
      borrow == IF lo < 0 THEN 1 ELSE 0
  IN <<(a[1] - b[1] - borrow + W16) % W16, (lo + W16) % W16>>

(* t >= k for an unsigned long t and 0 <= k < 2^31 *)
AtLeast(t, k) ==
  \/ t[1] > k \div W16
  \/ t[1] = k \div W16 /\ t[2] >= k % W16

(* C++ float-to-integer conversion truncates toward zero *)
TruncDiv(a, b) == IF a >= 0 THEN a \div b ELSE -((-a) \div b)

Constrain(x, lo, hi) == IF x < lo THEN lo ELSE IF x > hi THEN hi ELSE x

(* v = raw*VREF/1023.0*(R1+R2)/R2 is VoltNum(raw)/1023 volts: (R1+R2)/R2   *)
(* is exactly 5.                                                           *)
VoltNum(raw) == raw * VREF * ((R1 + R2) \div R2)

(* (v-5.5)*100.0/3.3, truncated toward zero *)
PctLinear(raw) ==
  TruncDiv((10 * VoltNum(raw) - PCT_ZERO_DECI * ADC_FULL) * 100,
           PCT_SPAN_DECI * ADC_FULL)

(* (uint8_t)x of a float x: the value when it fits; out of range the      *)
(* conversion is undefined, and builds either wrap it or saturate it.      *)
CastU8(x) ==
  IF x >= 0 /\ x < W8 THEN {x}
  ELSE {x % W8, IF x < 0 THEN 0 ELSE W8 - 1}

(* The float the code converts, truncated: PctLinear(raw) for every       *)
(* reading the ADC can give (single-precision rounding never crosses an    *)
(* integer there); beyond 1023 rounding can move it by one either way.     *)
PctFloat(raw) ==
  IF raw <= ADC_FULL THEN {PctLinear(raw)}
  ELSE {PctLinear(raw) - 1, PctLinear(raw), PctLinear(raw) + 1}

(* mutant: no clamp *)
ConstrainNone(x, lo, hi) == x
(* constrain(x, lo, hi) *)
ConstrainTo(x, lo, hi) == Constrain(x, lo, hi)

toPercent(raw) ==
  {ConstrainTo(b, 0, 100) : b \in UNION {CastU8(x) : x \in PctFloat(raw)}}

(* mutant: the cutoff ignores the build option *)
CutoffTripsAlways(raw) ==
  VoltNum(raw) * 100 < VBAT_CUT_CENTI * ADC_FULL
(* battCutoff && v < VBAT_CUT *)
CutoffTrips(raw) ==
  battCutoff /\ VoltNum(raw) * 100 < VBAT_CUT_CENTI * ADC_FULL

(* while (Wire.available()) Wire.read(); *)
RECURSIVE Drain(_)
Drain(buf) == IF Len(buf) > 0 THEN Drain(Tail(buf)) ELSE buf

(* cmd == CMD_MODE && n >= 2 *)
ModeFrame(cmd, n) == cmd = CMD_MODE /\ n >= 2

(* mutant: every byte that is not CMD_MODE requests a shutdown *)
ShutFrameLoose(cmd) == cmd # CMD_MODE
(* cmd == CMD_SHUT *)
ShutFrame(cmd) == cmd = CMD_SHUT

(* mutant: the mode is re-applied on every SET_MODE *)
ModeChangedAlways(nm) == TRUE
(* nm != alwaysOn *)
ModeChanged(nm) == nm # alwaysOn

(* mutant: level-triggered motion *)
PirLevel(pir) == ~alwaysOn /\ pir
(* !alwaysOn && pir && !lastPir *)
PirEdge(pir) == ~alwaysOn /\ pir /\ ~lastPir

(* mutant: > instead of >= *)
TimedOutStrict == ~alwaysOn /\ powering /\ AtLeast(Elapsed(now, onMs), HOLD_MS + 1)
(* !alwaysOn && powering && millis() - onMs >= 60000UL *)
TimedOut == ~alwaysOn /\ powering /\ AtLeast(Elapsed(now, onMs), HOLD_MS)

(* mutant: the mode test inverted *)
ShutDueInverted == alwaysOn /\ rqShutdown
(* !alwaysOn && rqShutdown *)
ShutDue == ~alwaysOn /\ rqShutdown

(* millis() - battT >= 10000UL *)
BattDue == AtLeast(Elapsed(now, battT), BATT_MS)

(* The state a loop cycle starts in, as the history variable c0 keeps it; *)
(* shutJust: the step before the cycle began handled a shutdown request;   *)
(* shutPrev: one was handled after the cycle before had begun, in the     *)
(* mode the new cycle starts in; pirReq: the flag holds a request received *)
(* in PIR mode.                                                            *)
Snapshot ==
  [rqShutdown |-> rqShutdown, powering |-> powering, onMs |-> onMs,
   pinRelay |-> pinRelay, lastPir |-> lastPir,
   shutJust |-> (last = "rxShut"), shutPrev |-> (dist = "mid"),
   pirReq |-> pirReq]

NoSnap == [rqShutdown |-> FALSE, powering |-> FALSE, onMs |-> <<0, 0>>,
           pinRelay |-> LOW, lastPir |-> FALSE,
           shutJust |-> FALSE, shutPrev |-> FALSE, pirReq |-> FALSE,
           void |-> TRUE]

Quiet == c0 # NoSnap /\ dist = "no"

(* ------------------------------- Init ---------------------------------- *)
(* State on reaching line 103 of setup(): relay driven ON, handlers        *)
(* registered, lastPir read from the pin; cutoff is the build's battCutoff. *)
InitWith(cutoff) ==
  /\ alwaysOn = TRUE
  /\ rqShutdown = FALSE
  /\ powering = TRUE
  /\ onMs = U32(0)
  /\ lastPir \in BOOLEAN
  /\ battPct = 0
  /\ battT = U32(0)
  /\ battCutoff = cutoff
  /\ pinRelay = relayOn
  /\ now = U32(0)
  /\ pc = "L103"
  /\ sleep = "run"
  /\ rxBuf = <<>>
  /\ cycles = 0
  /\ last = "main"
  /\ dist = "no"
  /\ tripped = FALSE
  /\ pirHeld = lastPir
  /\ pirReq = FALSE
  /\ rearmed = FALSE
  /\ c0 = Snapshot

(* The firmware as shipped: battCutoff = false (line 26) *)
Init == InitWith(FALSE)

(* The firmware built with the optional battery cutoff enabled *)
InitCutoff == InitWith(TRUE)

(* ------------------------------ saveBattery ---------------------------- *)
(* saveBattery() called from the main thread, returning to ret.            *)
saveBatteryOn(raw, ret) ==
  /\ battPct' \in toPercent(raw)
  /\ IF CutoffTrips(raw)
       THEN /\ pinRelay' = relayOff
            /\ sleep' = "down"
            /\ tripped' = TRUE
       ELSE UNCHANGED <<pinRelay, sleep, tripped>>
  /\ pc' = ret

saveBattery(ret) == \E raw \in RawSamples : saveBatteryOn(raw, ret)

(* txEvent(): the byte written to the bus on a read query *)
txEvent == battPct

(* saveBattery(); battT = millis(); at line 103, on the reading raw *)
SetupSample(raw) ==
  /\ pc = "L103" /\ sleep = "run"
  /\ saveBatteryOn(raw, "L109")
  /\ battT' = now
  /\ last' = "main"
  /\ UNCHANGED <<alwaysOn, rqShutdown, powering, onMs, lastPir, battCutoff,
                 now, rxBuf, cycles, c0, dist, pirHeld, pirReq, rearmed>>

SetupBattery == \E raw \in RawSamples : SetupSample(raw)

(* The first sample on every reading the 10-bit ADC can give, and on every *)
(* value of the uint16_t that carries it.                                  *)
SetupBatteryAdc == \E raw \in 0..ADC_FULL : SetupSample(raw)
SetupBatteryWord == \E raw \in 0..U16_MAX : SetupSample(raw)

(* ------------------------------ applyRelay ----------------------------- *)
(* mutant: the timer is not reset *)
applyRelayKeepsTimer ==
  IF alwaysOn'
    THEN pinRelay' = relayOn /\ powering' = TRUE /\ UNCHANGED onMs
    ELSE pinRelay' = relayOff /\ powering' = FALSE /\ UNCHANGED onMs

applyRelay ==
  IF alwaysOn'
    THEN pinRelay' = relayOn /\ powering' = TRUE /\ onMs' = now
    ELSE pinRelay' = relayOff /\ powering' = FALSE /\ UNCHANGED onMs

(* ------------------------------- rxEvent ------------------------------- *)
(* The branch rxEvent(n) takes on a frame, for the history variable last *)
Branch(frame) ==
  IF Len(frame) = 0 THEN "rxEmpty"
  ELSE IF Head(frame) = CMD_MODE
         THEN IF Len(frame) < 2 THEN "rxShort"
              ELSE IF (frame[2] # 0) # alwaysOn THEN "rxModeNew"
              ELSE "rxModeSame"
  ELSE IF Head(frame) = CMD_SHUT THEN "rxShut"
  ELSE "rxUnknown"

rxEvent(frame) ==
  LET n == Len(frame) IN
  /\ last' = Branch(frame)
  /\ IF n = 0
       THEN UNCHANGED <<alwaysOn, rqShutdown, powering, onMs, pinRelay>>
            /\ rxBuf' = frame
       ELSE LET cmd == Head(frame)
                rest == Tail(frame)
            IN IF ModeFrame(cmd, n)
                 THEN LET nm == (Head(rest) # 0) IN
                      /\ IF ModeChanged(nm)
                           THEN alwaysOn' = nm /\ applyRelay
                           ELSE UNCHANGED <<alwaysOn, powering, onMs, pinRelay>>
                      /\ UNCHANGED rqShutdown
                      /\ rxBuf' = Drain(Tail(rest))
                 ELSE /\ IF ShutFrame(cmd)
                           THEN rqShutdown' = TRUE
                           ELSE UNCHANGED rqShutdown
                      /\ UNCHANGED <<alwaysOn, powering, onMs, pinRelay>>
                      /\ rxBuf' = Drain(rest)
  /\ sleep' = IF sleep = "down" THEN "wake" ELSE sleep
  /\ dist' = IF alwaysOn' # alwaysOn THEN "no"
             ELSE IF last' # "rxShut" THEN dist
             ELSE IF pc \in {"L103", "L109"} /\ dist # "mid" THEN "start"
             ELSE "mid"
  /\ c0' = IF alwaysOn' # alwaysOn THEN NoSnap ELSE c0
  /\ pirReq' = (pirReq \/ (last' = "rxShut" /\ ~alwaysOn))
  /\ rearmed' = (rearmed /\ alwaysOn' = alwaysOn /\ last' # "rxShut")
  /\ UNCHANGED <<lastPir, battPct, battT, battCutoff, now, pc, cycles, tripped, pirHeld>>

Receive == \E frame \in Frames : rxEvent(frame)

(* LowPower.powerDown returns once an interrupt has woken the MCU *)
PowerDownReturn ==
  /\ sleep = "wake"
  /\ sleep' = "run"
  /\ last' = "main"
  /\ UNCHANGED <<alwaysOn, rqShutdown, powering, onMs, lastPir, battPct, battT,
                 battCutoff, pinRelay, now, pc, rxBuf, cycles, c0, dist, tripped, pirHeld, pirReq, rearmed>>

(* -------------------------------- loop --------------------------------- *)
(* A step of loop(): the main thread runs, and is not the handler.         *)
MainStep(at) ==
  /\ pc = at /\ sleep = "run"
  /\ last' = "main"

LoopBattery ==
  /\ MainStep("L109")
  /\ IF BattDue
       THEN battT' = now /\ saveBattery("L112")
       ELSE pc' = "L112" /\ UNCHANGED <<battT, battPct, pinRelay, sleep, tripped>>
  /\ UNCHANGED <<alwaysOn, rqShutdown, powering, onMs, lastPir, battCutoff,
                 now, rxBuf, cycles, c0, dist, pirHeld, pirReq, rearmed>>

(* mutant: the reading is recorded only in PIR mode *)
RecordPirInPirMode(pir) == lastPir' = IF alwaysOn THEN lastPir ELSE pir
(* lastPir = pir (line 117) *)
RecordPir(pir) == lastPir' = pir

LoopPir ==
  /\ MainStep("L112")
  /\ \E pir \in BOOLEAN :
       /\ pc' = IF PirEdge(pir) THEN "L115a" ELSE "L120"
       /\ RecordPir(pir)
       /\ pirHeld' = (pir /\ (alwaysOn \/ pirHeld))
       /\ rearmed' = IF PirEdge(pir)
                       THEN /\ relayIsOn /\ ~rqShutdown
                            /\ ~AtLeast(Elapsed(now, onMs), HOLD_MS)
                       ELSE rearmed
  /\ UNCHANGED <<alwaysOn, rqShutdown, powering, onMs, battPct, battT,
                 battCutoff, pinRelay, now, sleep, rxBuf, cycles, c0, dist, tripped,
                 pirReq>>

LoopPirRelayOn ==
  /\ MainStep("L115a")
  /\ pinRelay' = relayOn
  /\ pc' = "L115b"
  /\ UNCHANGED <<alwaysOn, rqShutdown, powering, onMs, lastPir, battPct, battT,
                 battCutoff, now, sleep, rxBuf, cycles, c0, dist, tripped, pirHeld, pirReq, rearmed>>

LoopPirPowering ==
  /\ MainStep("L115b")
  /\ powering' = TRUE
  /\ pc' = "L115c"
  /\ UNCHANGED <<alwaysOn, rqShutdown, onMs, lastPir, battPct, battT,
                 battCutoff, pinRelay, now, sleep, rxBuf, cycles, c0, dist, tripped, pirHeld, pirReq, rearmed>>

(* mutant: the edge does not restart the timer *)
LoopPirOnMsKept ==
  /\ MainStep("L115c")
  /\ pc' = "L120"
  /\ UNCHANGED <<alwaysOn, rqShutdown, powering, onMs, lastPir, battPct, battT,
                 battCutoff, pinRelay, now, sleep, rxBuf, cycles, c0, dist, tripped, pirHeld, pirReq, rearmed>>

LoopPirOnMs ==
  /\ MainStep("L115c")
  /\ onMs' = now
  /\ pc' = "L120"
  /\ UNCHANGED <<alwaysOn, rqShutdown, powering, lastPir, battPct, battT,
                 battCutoff, pinRelay, now, sleep, rxBuf, cycles, c0, dist, tripped, pirHeld, pirReq, rearmed>>

LoopTimeout ==
  /\ MainStep("L120")
  /\ pc' = IF TimedOut THEN "L122a" ELSE "L126"
  /\ UNCHANGED <<alwaysOn, rqShutdown, powering, onMs, lastPir, battPct, battT,
                 battCutoff, pinRelay, now, sleep, rxBuf, cycles, c0, dist, tripped, pirHeld, pirReq, rearmed>>

LoopTimeoutRelayOff ==
  /\ MainStep("L122a")
  /\ pinRelay' = relayOff
  /\ pc' = "L122b"
  /\ UNCHANGED <<alwaysOn, rqShutdown, powering, onMs, lastPir, battPct, battT,
                 battCutoff, now, sleep, rxBuf, cycles, c0, dist, tripped, pirHeld, pirReq, rearmed>>

LoopTimeoutPowering ==
  /\ MainStep("L122b")
  /\ powering' = FALSE
  /\ pc' = "L126"
  /\ UNCHANGED <<alwaysOn, rqShutdown, onMs, lastPir, battPct, battT,
                 battCutoff, pinRelay, now, sleep, rxBuf, cycles, c0, dist, tripped, pirHeld, pirReq, rearmed>>

LoopShut ==
  /\ MainStep("L126")
  /\ pc' = IF ShutDue THEN "L128a" ELSE "L131"
  /\ UNCHANGED <<alwaysOn, rqShutdown, powering, onMs, lastPir, battPct, battT,
                 battCutoff, pinRelay, now, sleep, rxBuf, cycles, c0, dist, tripped, pirHeld, pirReq, rearmed>>

LoopShutRelayOff ==
  /\ MainStep("L128a")
  /\ pinRelay' = relayOff
  /\ pc' = "L128b"
  /\ UNCHANGED <<alwaysOn, rqShutdown, powering, onMs, lastPir, battPct, battT,
                 battCutoff, now, sleep, rxBuf, cycles, c0, dist, tripped, pirHeld, pirReq, rearmed>>

LoopShutPowering ==
  /\ MainStep("L128b")
  /\ powering' = FALSE
  /\ pc' = "L128c"
  /\ UNCHANGED <<alwaysOn, rqShutdown, onMs, lastPir, battPct, battT,
                 battCutoff, pinRelay, now, sleep, rxBuf, cycles, c0, dist, tripped, pirHeld, pirReq, rearmed>>

LoopShutClear ==
  /\ MainStep("L128c")
  /\ rqShutdown' = FALSE
  /\ pirReq' = FALSE
  /\ pc' = "L131"
  /\ UNCHANGED <<alwaysOn, powering, onMs, lastPir, battPct, battT,
                 battCutoff, pinRelay, now, sleep, rxBuf, cycles, c0, dist, tripped,
                 pirHeld, rearmed>>

(* delay(50): the cycle ends and the next one begins; at most max cycles  *)
(* are run, each lasting one of the durations in steps.                    *)
LoopDelayWith(max, steps) ==
  /\ MainStep("L131")
  /\ cycles < max
  /\ \E d \in steps : now' = Add32(now, d)
  /\ cycles' = cycles + 1
  /\ pc' = "L109"
  /\ c0' = Snapshot
  /\ dist' = "no"
  /\ UNCHANGED <<alwaysOn, rqShutdown, powering, onMs, lastPir, battPct, battT,
                 battCutoff, pinRelay, sleep, rxBuf, tripped, pirHeld, pirReq, rearmed>>

LoopDelay == LoopDelayWith(MaxCycles, DelaySteps)

Next ==
  \/ SetupBattery
  \/ Receive
  \/ LoopBattery
  \/ LoopPir
  \/ LoopPirRelayOn
  \/ LoopPirPowering
  \/ LoopPirOnMs
  \/ LoopTimeout
  \/ LoopTimeoutRelayOff
  \/ LoopTimeoutPowering
  \/ LoopShut
  \/ LoopShutRelayOff
  \/ LoopShutPowering
  \/ LoopShutClear
  \/ LoopDelay

NextCutoff == Next \/ PowerDownReturn

Spec == Init /\ [][Next]_vars

SpecCutoff == InitCutoff /\ [][NextCutoff]_vars

(* saveBattery() as a function of its reading, in both builds *)
InitBatt == InitWith(FALSE) \/ InitWith(TRUE)

SpecAdc == InitBatt /\ [][SetupBatteryAdc]_vars

SpecWord == InitBatt /\ [][SetupBatteryWord]_vars

(* The model in which every handler invocation runs between two loop       *)
(* cycles (before the cycle's first statement or during its delay).        *)
ReceiveAtomic ==
  /\ pc \in {"L103", "L109", "L131"}
  /\ Receive

NextAtomic ==
  \/ SetupBattery
  \/ ReceiveAtomic
  \/ LoopBattery
  \/ LoopPir
  \/ LoopPirRelayOn
  \/ LoopPirPowering
  \/ LoopPirOnMs
  \/ LoopTimeout
  \/ LoopTimeoutRelayOff
  \/ LoopTimeoutPowering
  \/ LoopShut
  \/ LoopShutRelayOff
  \/ LoopShutPowering
  \/ LoopShutClear
  \/ LoopDelay

SpecAtomic == Init /\ [][NextAtomic]_vars

(* ================================ claims =============================== *)
(* --------------------- the hold window over cycles --------------------- *)
(* The commands of the protocol, well formed *)
CommandFrames == {SetModeFrame(TRUE), SetModeFrame(FALSE), ShutdownFrame}

ReceiveCommand == \E frame \in CommandFrames : rxEvent(frame)

LoopDelayTimer == LoopDelayWith(MaxTimerCycles, DelaySteps)

LoopDelayHold == LoopDelayWith(MaxHoldCycles, HoldSteps)

(* The statements of loop() up to its delay *)
LoopBody ==
  \/ LoopBattery
  \/ LoopPir
  \/ LoopPirRelayOn
  \/ LoopPirPowering
  \/ LoopPirOnMs
  \/ LoopTimeout
  \/ LoopTimeoutRelayOff
  \/ LoopTimeoutPowering
  \/ LoopShut
  \/ LoopShutRelayOff
  \/ LoopShutPowering
  \/ LoopShutClear

NextTimer ==
  \/ SetupBattery
  \/ ReceiveCommand
  \/ LoopBody
  \/ LoopDelayTimer

(* Cycles 50 ms, 59.999 s or 60 s apart *)
SpecTimer == Init /\ [][NextTimer]_vars

(* The main thread: setup()'s last line, then loop() for ever *)
MainHold == SetupBattery \/ LoopBody \/ LoopDelayHold

NextHold ==
  \/ SetupBattery
  \/ ReceiveCommand
  \/ LoopBody
  \/ LoopDelayHold

(* Cycles at least half a hold window apart; the main thread always gets   *)
(* to run again: the handler returns, and nothing in loop() blocks.        *)
SpecHoldFair == Init /\ [][NextHold]_vars /\ WF_vars(MainHold)

(* The firmware as shipped at the start of a loop cycle after it has idled *)
(* in ALWAYS_ON since boot, WrapLead ms before millis() wraps: the relay   *)
(* is ON since boot, the battery was sampled in the cycle before.          *)
InitNearWrap ==
  /\ alwaysOn = TRUE
  /\ rqShutdown = FALSE
  /\ powering = TRUE
  /\ onMs = U32(0)
  /\ lastPir \in BOOLEAN
  /\ battPct \in UNION {toPercent(raw) : raw \in RawSamples}
  /\ now = <<W16 - 1, W16 - WrapLead>>
  /\ battT = Elapsed(now, U32(DELAY_MS))
  /\ battCutoff = FALSE
  /\ pinRelay = relayOn
  /\ pc = "L109"
  /\ sleep = "run"
  /\ rxBuf = <<>>
  /\ cycles = 0
  /\ last = "main"
  /\ dist = "no"
  /\ tripped = FALSE
  /\ pirHeld = lastPir
  /\ pirReq = FALSE
  /\ rearmed = FALSE
  /\ c0 = Snapshot

NextWrap ==
  \/ ReceiveCommand
  \/ LoopBody
  \/ LoopDelayHold

SpecWrap == InitNearWrap /\ [][NextWrap]_vars

(* The main thread has reached the end of a loop cycle (its delay).        *)
CycleEnd == pc = "L131"

(* C1: a SET_MODE that changes the mode to ALWAYS_ON returns with the      *)
(* relay ON (pin and powering) and onMs equal to the current time; one     *)
(* that changes it to PIR_TRIGGERED returns with the relay OFF; both       *)
(* within the handler step itself, whatever the state before.              *)
ModeSwitchForcesRelay ==
  [][\A m \in BOOLEAN :
       (m # alwaysOn /\ rxEvent(SetModeFrame(m))) =>
         /\ alwaysOn' = m
         /\ pc' = pc
         /\ IF m THEN relayIsOn' /\ powering' /\ onMs' = now'
                 ELSE ~relayIsOn' /\ ~powering']_vars

(* A switch to ALWAYS_ON later than boot, with a shutdown request pending *)
ModeSwitchWitness ==
  /\ last = "rxModeNew" /\ alwaysOn /\ relayIsOn /\ powering
  /\ onMs = now /\ now # U32(0) /\ rqShutdown

(* C2: a SET_MODE whose value is the current mode leaves the relay pin,    *)
(* powering, the timer, the mode and the shutdown flag unchanged.          *)
ModeReassertIdempotent ==
  [][\A m \in BOOLEAN :
       (m = alwaysOn /\ rxEvent(SetModeFrame(m))) =>
         UNCHANGED <<pinRelay, powering, onMs, alwaysOn, rqShutdown>>]_vars

(* SET_MODE(PIR) handled in PIR mode while a motion trigger holds the      *)
(* relay ON                                                                *)
ModeReassertWitness ==
  /\ last = "rxModeSame" /\ ~alwaysOn /\ relayIsOn /\ powering
  /\ CycleEnd /\ cycles >= 1

(* C3: at the end of a loop cycle in PIR mode that began with the relay ON *)
(* since t0 (= onMs) and no shutdown request, saw no rising edge and no    *)
(* mode change or shutdown command, the relay is ON exactly when           *)
(* now - t0 < 60000 ms.                                                    *)
TimeoutDeterminism ==
  (/\ CycleEnd /\ Quiet /\ ~alwaysOn
   /\ c0.pinRelay = relayOn /\ ~c0.rqShutdown
   /\ ~(lastPir /\ ~c0.lastPir))
  => (relayIsOn <=> ~AtLeast(Elapsed(now, c0.onMs), HOLD_MS))

(* A cycle run at t0 + 59999 that left the relay ON *)
TimeoutWitness ==
  /\ CycleEnd /\ Quiet /\ ~alwaysOn
  /\ c0.pinRelay = relayOn /\ ~c0.rqShutdown /\ ~(lastPir /\ ~c0.lastPir)
  /\ Elapsed(now, c0.onMs) = U32(HOLD_MS - 1)
  /\ relayIsOn

(* C4: in PIR mode, at the end of a cycle with no mode change or shutdown  *)
(* command: if it read HIGH after a LOW the timer was reset to now (and    *)
(* the relay is ON unless a shutdown request was pending); if it read HIGH *)
(* after a HIGH the timer is untouched and the relay was not turned ON.    *)
EdgeOnlyRetrigger ==
  (CycleEnd /\ Quiet /\ ~alwaysOn /\ lastPir) =>
    IF c0.lastPir
      THEN onMs = c0.onMs /\ (relayIsOn => c0.pinRelay = relayOn)
      ELSE onMs = now /\ (~c0.rqShutdown => relayIsOn)

(* A cycle that still reads HIGH, times the relay out and leaves it OFF *)
EdgeOnlyWitness ==
  /\ CycleEnd /\ Quiet /\ ~alwaysOn /\ lastPir /\ c0.lastPir
  /\ c0.pinRelay = relayOn /\ ~relayIsOn /\ ~c0.rqShutdown

(* C5 as stated: the request reaches the handler in PIR mode at any point  *)
(* of a loop cycle or of its delay; the cycle checked is the next complete *)
(* one, during which the mode stays PIR_TRIGGERED and no further shutdown  *)
(* command arrives; it ends with the relay OFF and the flag clear.         *)
ShutdownHonouredNextCycle ==
  (CycleEnd /\ Quiet /\ ~alwaysOn /\ c0.shutPrev) =>
    (~relayIsOn /\ ~rqShutdown)

(* C5: when a REQUEST_SHUTDOWN is handled in PIR mode just before a loop   *)
(* cycle begins and no mode change or further shutdown command arrives     *)
(* during the cycle, the cycle ends with the relay OFF and the flag clear, *)
(* whether or not the relay was ON or its 60 s window had expired.         *)
ShutdownHonouredInPir ==
  (CycleEnd /\ Quiet /\ ~alwaysOn /\ c0.shutJust) =>
    (~relayIsOn /\ ~powering /\ ~rqShutdown)

(* The request arrived with the relay ON inside its 60 s window *)
ShutdownHonouredWitness ==
  /\ CycleEnd /\ Quiet /\ ~alwaysOn /\ c0.shutJust
  /\ c0.pinRelay = relayOn /\ ~AtLeast(Elapsed(now, c0.onMs), HOLD_MS)
  /\ ~relayIsOn /\ ~rqShutdown

(* C6: a REQUEST_SHUTDOWN handled in ALWAYS_ON mode returns with the flag  *)
(* set, and a loop cycle that follows it with the mode ALWAYS_ON from the  *)
(* request to the cycle's end ends with the relay ON and the flag set.     *)
ShutdownIgnoredAlwaysOn ==
  /\ (last = "rxShut" /\ alwaysOn) => rqShutdown
  /\ (CycleEnd /\ c0 # NoSnap /\ alwaysOn /\ c0.shutPrev) =>
       (relayIsOn /\ rqShutdown)

(* C7: once the battery cutoff has tripped the relay is never ON again.    *)
CutoffTerminal == tripped => ~relayIsOn

(* What holds at the end of every loop cycle when handlers run only        *)
(* between cycles (an invariant of SpecAtomic).                            *)
AtomicCycleEnd ==
  /\ powering <=> relayIsOn
  /\ alwaysOn => relayIsOn
  /\ ~alwaysOn => ~rqShutdown
  /\ (~alwaysOn /\ relayIsOn) => ~AtLeast(Elapsed(now, onMs), HOLD_MS)

AtomicCycleEndHolds == (CycleEnd /\ last = "main") => AtomicCycleEnd

(* C8: the state in which the main thread ends a loop cycle is one that    *)
(* is reachable with every handler invocation run between cycles.          *)
RaceFree == (CycleEnd /\ last = "main") => AtomicCycleEnd

(* C9: at the end of a loop cycle and on return from the handler,          *)
(* powering is ON exactly when the relay pin is at RELAY_ON_STATE.         *)
RelayStateMatchesPin == (CycleEnd \/ last # "main") => (powering <=> relayIsOn)

UnknownFrames ==
  {f \in Frames : Len(f) >= 1 /\ f[1] # CMD_MODE /\ f[1] # CMD_SHUT}

(* C10: a frame whose first byte is neither CMD_MODE nor CMD_SHUT leaves   *)
(* mode, relay pin, powering, timer and shutdown flag unchanged, the       *)
(* receive buffer empty and the main thread where it was.                  *)
UnknownCommandIgnored ==
  [][(last' = "rxUnknown" /\ \E f \in UnknownFrames : rxEvent(f)) =>
       /\ UNCHANGED <<alwaysOn, pinRelay, powering, onMs, rqShutdown>>
       /\ rxBuf' = <<>>
       /\ pc' = pc]_vars

(* An unknown frame handled while a motion trigger holds the relay ON and  *)
(* a shutdown request is pending                                           *)
UnknownCommandWitness ==
  /\ last = "rxUnknown" /\ rxBuf = <<>>
  /\ ~alwaysOn /\ relayIsOn /\ rqShutdown

WrongLengthFrames ==
  {f \in Frames :
     /\ Len(f) >= 1
     /\ \/ f[1] = CMD_MODE /\ Len(f) # 2
        \/ f[1] = CMD_SHUT /\ Len(f) # 1}

(* C11: a frame with a known command byte and the wrong length (CMD_MODE   *)
(* alone, CMD_MODE with more than one payload byte, CMD_SHUT with a        *)
(* payload) leaves mode, relay pin, powering, timer and shutdown flag      *)
(* unchanged and the receive buffer drained.                               *)
WrongLengthIgnored ==
  [][(\E f \in WrongLengthFrames : rxEvent(f)) =>
       /\ UNCHANGED <<alwaysOn, pinRelay, powering, onMs, rqShutdown>>
       /\ rxBuf' = <<>>]_vars

(* C12: the stored battery percentage, which is the byte a bus read        *)
(* returns, is within 0..100 before the first sample and after a sample of *)
(* any 16-bit reading.                                                     *)
BatteryPercentInRange == txEvent \in 0..100

(* A reading below 5.5 V whose negative percentage was stored as 100 *)
BatteryPercentWitness ==
  /\ pc = "L109" /\ tripped /\ battPct = 100

(* C13: after a sample of any reading 0..1023 the stored percentage is the *)
(* linear value (5.5 V = 0, 8.8 V = 100) saturated to 0..100.              *)
PercentIsClampedLinear ==
  [][\A raw \in 0..ADC_FULL :
       SetupSample(raw) => battPct' = Constrain(PctLinear(raw), 0, 100)]_vars

(* C19: a sample halts exactly when the cutoff is enabled and the voltage  *)
(* is below 5.40 V, with the relay pin OFF when it halts; a sample that    *)
(* does not halt leaves mode, relay pin, powering, timer and shutdown flag *)
(* unchanged.                                                              *)
CutoffExactlyOnCondition ==
  [][\A raw \in 0..ADC_FULL :
       SetupSample(raw) =>
         LET below == VoltNum(raw) * 100 < VBAT_CUT_CENTI * ADC_FULL IN
         /\ (sleep' = "down") <=> (battCutoff /\ below)
         /\ (sleep' = "down") => (~relayIsOn' /\ tripped')
         /\ (sleep' # "down") =>
              UNCHANGED <<alwaysOn, pinRelay, powering, onMs, rqShutdown>>]_vars

(* The cutoff build halted on a low reading with the relay pin OFF *)
CutoffExactlyWitness ==
  /\ pc = "L109" /\ battCutoff /\ sleep = "down" /\ tripped /\ ~relayIsOn

(* C14: at the end of a loop cycle in ALWAYS_ON mode, with the battery     *)
(* cutoff not tripped, the relay pin is ON, whatever commands, edges and   *)
(* expiries came before and wherever the handler ran.                      *)
AlwaysOnKeepsPower == (CycleEnd /\ alwaysOn /\ ~tripped) => relayIsOn

(* C17: a loop cycle that runs in PIR mode, begins with a pending request  *)
(* received only in ALWAYS_ON mode, handles no request itself and reads a  *)
(* rising edge ends with the relay pin ON.                                 *)
StaleRequestHarmless ==
  (/\ CycleEnd /\ last = "main" /\ ~alwaysOn /\ Quiet
   /\ c0.rqShutdown /\ ~c0.pirReq
   /\ ~c0.lastPir /\ lastPir) => relayIsOn

RearmHoldsWindow ==
  (CycleEnd /\ ~alwaysOn /\ rearmed) =>
    /\ relayIsOn <=> ~AtLeast(Elapsed(now, onMs), HOLD_MS)
    /\ (c0 # NoSnap /\ ~c0.lastPir /\ lastPir) => onMs = now

(* The first cycle at t1 + 60000 after a re-arming edge at t1 > 0 has     *)
(* turned the relay OFF.                                                   *)
RearmWitness ==
  /\ CycleEnd /\ ~alwaysOn /\ rearmed /\ ~relayIsOn
  /\ Elapsed(now, onMs) = U32(HOLD_MS) /\ onMs # U32(0)
  /\ c0.pinRelay = relayOn

(* C16 (safety): at the end of a loop cycle in PIR mode with the relay pin *)
(* ON, now - onMs is below 60000 ms.                                       *)
OnTimeBelowHold ==
  (CycleEnd /\ ~alwaysOn /\ relayIsOn) => ~AtLeast(Elapsed(now, onMs), HOLD_MS)

(* C16: OnTimeBelowHold always holds, and a relay that is ON in PIR mode   *)
(* with two cycles still to run leads to the relay OFF, unless the mode    *)
(* changes or a rising edge is being handled; under every interleaving of  *)
(* the handler and fair scheduling of the main thread.                     *)
BoundedOnTime ==
  /\ []OnTimeBelowHold
  /\ (~alwaysOn /\ relayIsOn /\ cycles <= MaxHoldCycles - 2)
       ~> (~relayIsOn \/ alwaysOn \/ pc \in {"L115a", "L115b", "L115c"})

(* A timeout has just turned OFF a relay that a motion edge had turned ON *)
BoundedOnTimeWitness ==
  /\ pc = "L122b" /\ last = "main" /\ ~alwaysOn /\ ~relayIsOn /\ powering
  /\ c0 # NoSnap /\ c0.pinRelay = relayOn /\ onMs # U32(0)

(* C20: a relay turned ON in PIR mode less than 2^16 ms before millis()    *)
(* wraps is, at the end of a quiet cycle run less than 2^16 ms after the   *)
(* wrap, ON exactly when the time truly elapsed, (2^32 - t0) + now, is     *)
(* below 60000 ms.                                                         *)
WrapTimeout ==
  (/\ CycleEnd /\ Quiet /\ ~alwaysOn
   /\ c0.pinRelay = relayOn /\ ~c0.rqShutdown
   /\ ~(lastPir /\ ~c0.lastPir)
   /\ c0.onMs[1] = W16 - 1 /\ now[1] = 0)
  => (relayIsOn <=> (W16 - c0.onMs[2]) + now[2] < HOLD_MS)

(* The first cycle 60000 ms after t0, on the far side of the wrap, has     *)
(* turned the relay OFF.                                                   *)
WrapTimeoutWitness ==
  /\ CycleEnd /\ Quiet /\ ~alwaysOn
  /\ c0.pinRelay = relayOn /\ ~c0.rqShutdown /\ ~(lastPir /\ ~c0.lastPir)
  /\ c0.onMs[1] = W16 - 1 /\ now[1] = 0
  /\ (W16 - c0.onMs[2]) + now[2] = HOLD_MS
  /\ ~relayIsOn

====
